---- MODULE Spec2Model ----
(***************************************************************************)
(* A model of the two Flask applications of the repository:                *)
(*   src/app.py   the resume-portfolio generator (accounts, portfolios,    *)
(*                the heuristic resume parser, rendering, payment), and    *)
(*   src/app1.py  the house-price prediction form.                         *)
(* Strings whose characters the code inspects are sequences of one-        *)
(* character strings; the empty string is << >>.                           *)
(***************************************************************************)
EXTENDS Integers, Sequences, FiniteSets, TLC

VARIABLES
    \* src/app.py, parse_resume_text
    text,       \* the argument
    lines,      \* text.split('\n')
    i,          \* number of lines the for loop has consumed
    data,       \* the dict being filled
    pc,         \* position inside parse_resume_text
    \* src/app.py, the web application
    users,      \* table user: sequence of rows, the row's id is its index
    portfolios, \* table portfolio: sequence of rows, the row's id is its index
    session,    \* per browser, the id of the logged-in user (0: anonymous)
    now,        \* the last value datetime.utcnow() returned
    resp,       \* the request last handled and its response
    \* src/app1.py, predict_datapoint
    request,    \* the request: method and form
    calls,      \* the estimator methods applied, in order
    reply       \* the response

parserVars == <<text, lines, i, data, pc>>
webVars == <<users, portfolios, session, now, resp>>
predictVars == <<request, calls, reply>>
vars == <<text, lines, i, data, pc, users, portfolios, session, now, resp,
          request, calls, reply>>

(***************************************************************************)
(* Characters and strings                                                  *)
(***************************************************************************)
Digits == {"0", "1", "2", "3", "4", "5", "6", "7", "8", "9"}
Whitespace == {" ", "\t", "\r", "\n"}

Rep(c, n) == [k \in 1..n |-> c]

\* '@' in line
Contains(s, c) == \E k \in 1..Len(s) : s[k] = c

\* any(char.isdigit() for char in line)
AnyDigit(s) == \E k \in 1..Len(s) : s[k] \in Digits

RECURSIVE LStrip(_)
LStrip(s) == IF s # << >> /\ Head(s) \in Whitespace THEN LStrip(Tail(s)) ELSE s

RECURSIVE RStrip(_)
RStrip(s) ==
    IF s # << >> /\ s[Len(s)] \in Whitespace
    THEN RStrip(SubSeq(s, 1, Len(s) - 1))
    ELSE s

\* line.strip()
Strip(s) == RStrip(LStrip(s))

\* text.split('\n')
RECURSIVE Split(_)
Split(s) ==
    IF ~Contains(s, "\n")
    THEN <<s>>
    ELSE LET k == CHOOSE j \in 1..Len(s) :
                      s[j] = "\n" /\ \A m \in 1..(j - 1) : s[m] # "\n"
         IN  <<SubSeq(s, 1, k - 1)>> \o Split(SubSeq(s, k + 1, Len(s)))

RECURSIVE JoinLines(_)
JoinLines(ls) ==
    IF Len(ls) = 0 THEN << >>
    ELSE IF Len(ls) = 1 THEN ls[1]
    ELSE ls[1] \o <<"\n">> \o JoinLines(Tail(ls))

(***************************************************************************)
(* parse_resume_text (src/app.py 86-121)                                   *)
(***************************************************************************)
PhoneMinLen == 10
PhoneMaxLen == 15

EmptyData ==
    [name |-> << >>, email |-> << >>, phone |-> << >>, summary |-> << >>,
     experience |-> << >>, education |-> << >>, skills |-> << >>,
     projects |-> << >>]

\* the phone test of line 113 with an off-by-one lower bound
IsPhoneLineStrict(line) ==
    AnyDigit(line) /\ Len(line) > PhoneMinLen /\ Len(line) <= PhoneMaxLen

\* the phone test of line 113 without the digit requirement
IsPhoneLineAnyChar(line) ==
    Len(line) >= PhoneMinLen /\ Len(line) <= PhoneMaxLen

\* line 113
IsPhoneLine(line) ==
    AnyDigit(line) /\ Len(line) >= PhoneMinLen /\ Len(line) <= PhoneMaxLen

\* one iteration of the for loop, lines 104-119
LoopBody(d, raw) ==
    LET line == Strip(raw)
        d1 == IF Contains(line, "@") /\ d.email = << >>
              THEN [d EXCEPT !.email = line] ELSE d
        d2 == IF IsPhoneLine(line) /\ d1.phone = << >>
              THEN [d1 EXCEPT !.phone = line] ELSE d1
        d3 == IF d2.name = << >> /\ ~Contains(line, "@") /\ ~AnyDigit(line)
              THEN [d2 EXCEPT !.name = line] ELSE d2
    IN  IF line = << >> THEN d ELSE d3

RECURSIVE ParseLines(_, _)
ParseLines(d, ls) ==
    IF ls = << >> THEN d ELSE ParseLines(LoopBody(d, Head(ls)), Tail(ls))

\* the whole function, as its callers see it
parse_resume_text(t) == ParseLines(EmptyData, Split(t))

(***************************************************************************)
(* Inputs of the parser                                                    *)
(***************************************************************************)
MaxLines == 3

Letters(n) == Rep("a", n)
Ones(n) == Rep("1", n)

SampleLines ==
    { << >>,                                   \* empty line
      <<" ">>,                                 \* blank line
      <<"A", "n", "n">>,                       \* plain
      <<" ", "B", "o", "\r">>,                 \* plain, padded
      <<"a", "@", "b">>,                       \* email
      <<" ", "c", "9", "@", "d">>,             \* email with a digit, padded
      <<"e", "1", "@">> \o Letters(8),         \* email with a digit, 11 chars
      Ones(9),                                 \* 9 digits
      <<" ">> \o Ones(9),                      \* 10 chars raw, 9 stripped
      Ones(10),
      <<"+">> \o Ones(14),                     \* 15 chars
      <<" ">> \o Ones(15) \o <<" ">>,          \* 17 chars raw, 15 stripped
      Ones(16),
      Letters(12) }                            \* 12 chars, no digit

Texts == { JoinLines(ls) : ls \in [1..MaxLines -> SampleLines] }

(***************************************************************************)
(* Values of the variables of an application that is not running          *)
(***************************************************************************)
\* the browsers that talk to the web application; a handler reads of its
\* caller only the logged-in user, which one browser takes through every value
Clients == {"c1"}

NoFile ==
    [present |-> FALSE, filename |-> << >>, format |-> "", parts |-> << >>]

NoForm == [k \in {} |-> << >>]

NoResp ==
    [route |-> "none", method |-> "", client |-> "", user |-> 0, id |-> 0,
     email |-> "", file |-> NoFile, form |-> NoForm,
     status |-> 0, flash |-> "", target |-> "",
     rendered |-> FALSE, resume_data |-> EmptyData, show_branding |-> FALSE,
     template |-> ""]

ParserIdle ==
    /\ text = << >>
    /\ lines = << >>
    /\ i = 0
    /\ data = EmptyData
    /\ pc = "idle"

WebIdle ==
    /\ users = << >>
    /\ portfolios = << >>
    /\ session = [c \in Clients |-> 0]
    /\ now = 0
    /\ resp = NoResp

NoReply ==
    [status |-> 0, kind |-> "none", body |-> "", exc |-> "", result |-> << >>]

PredictIdle ==
    /\ request = [method |-> "none", form |-> NoForm]
    /\ calls = << >>
    /\ reply = NoReply

(***************************************************************************)
(* The parser as a state machine                                           *)
(***************************************************************************)
ParserInit ==
    /\ text \in Texts
    /\ lines = << >>
    /\ i = 0
    /\ data = EmptyData
    /\ pc = "call"
    /\ WebIdle
    /\ PredictIdle

\* lines 89-100
ParseEnter ==
    /\ pc = "call"
    /\ lines' = Split(text)
    /\ data' = EmptyData
    /\ i' = 0
    /\ pc' = "loop"
    /\ UNCHANGED <<text, webVars, predictVars>>

\* lines 103-119, one line of the text
ParseLoop ==
    /\ pc = "loop"
    /\ i < Len(lines)
    /\ data' = LoopBody(data, lines[i + 1])
    /\ i' = i + 1
    /\ UNCHANGED <<text, lines, pc, webVars, predictVars>>

\* line 121
ParseReturn ==
    /\ pc = "loop"
    /\ i = Len(lines)
    /\ pc' = "done"
    /\ UNCHANGED <<text, lines, i, data, webVars, predictVars>>

ParserNext == ParseEnter \/ ParseLoop \/ ParseReturn

ParserSpec == ParserInit /\ [][ParserNext]_vars

(***************************************************************************)
(* predict_datapoint (src/app1.py 17-37)                                   *)
(***************************************************************************)
\* the fields in the order the handler converts them, lines 21-27
Fields ==
    <<"area", "bedrooms", "bathrooms", "stories", "mainroad", "basement",
      "parking">>

FieldNames == {Fields[k] : k \in 1..Len(Fields)}

\* Of the literals float() accepts the model keeps: optional surrounding
\* whitespace, an optional sign, one or more decimal digits.  The form
\* values drawn below contain no '.', exponent, "inf" or "nan".
IsFloatLiteral(s) ==
    LET t == Strip(s)
        u == IF t # << >> /\ Head(t) \in {"+", "-"} THEN Tail(t) ELSE t
    IN  u # << >> /\ \A k \in 1..Len(u) : u[k] \in Digits

DigitValue(c) ==
    CASE c = "0" -> 0 [] c = "1" -> 1 [] c = "2" -> 2 [] c = "3" -> 3
      [] c = "4" -> 4 [] c = "5" -> 5 [] c = "6" -> 6 [] c = "7" -> 7
      [] c = "8" -> 8 [] c = "9" -> 9

RECURSIVE DecimalValue(_)
DecimalValue(u) ==
    IF u = << >> THEN 0
    ELSE 10 * DecimalValue(SubSeq(u, 1, Len(u) - 1)) + DigitValue(u[Len(u)])

FloatValue(s) ==
    LET t == Strip(s)
    IN  IF Head(t) = "-" THEN 0 - DecimalValue(Tail(t))
        ELSE IF Head(t) = "+" THEN DecimalValue(Tail(t))
        ELSE DecimalValue(t)

\* float(request.form.get(name) or 0): a missing field taken for zero
FloatOrZero(form, name) ==
    IF name \notin DOMAIN form THEN [ok |-> TRUE, exc |-> "", value |-> 0]
    ELSE IF ~IsFloatLiteral(form[name])
    THEN [ok |-> FALSE, exc |-> "ValueError", value |-> 0]
    ELSE [ok |-> TRUE, exc |-> "", value |-> FloatValue(form[name])]

\* float(request.form.get(name)): the value, or the exception raised
\* (form.get gives None for a missing field, and float(None) is a TypeError)
Float(form, name) ==
    IF name \notin DOMAIN form
    THEN [ok |-> FALSE, exc |-> "TypeError", value |-> 0]
    ELSE IF ~IsFloatLiteral(form[name])
    THEN [ok |-> FALSE, exc |-> "ValueError", value |-> 0]
    ELSE [ok |-> TRUE, exc |-> "", value |-> FloatValue(form[name])]

\* The scaler and the model are unpickled objects (lines 10-11) whose
\* coefficients the source does not hold: their results are kept as terms.
ScalerTransform(features) == <<"standard_scaler.transform", features>>
RidgePredict(scaled) == <<"ridge1_model.predict", scaled>>

FormValues == {<<"a">>, <<"7">>, <<" ", "-", "2", "0">>}

\* a form: some of the fields, each with a value
Forms == UNION {[D -> FormValues] : D \in SUBSET FieldNames}

Requests ==
    {[method |-> "GET", form |-> NoForm]}
        \cup {[method |-> "POST", form |-> f] : f \in Forms}

PredictInit ==
    /\ request \in Requests
    /\ calls = << >>
    /\ reply = NoReply
    /\ ParserIdle
    /\ WebIdle

\* lines 19-35, a POST
PredictPost ==
    /\ request.method = "POST"
    /\ reply = NoReply
    /\ LET parsed == [k \in 1..Len(Fields) |-> Float(request.form, Fields[k])]
           failed == {k \in 1..Len(Fields) : ~parsed[k].ok}
       IN  IF failed # {}
           THEN LET k == CHOOSE j \in failed : \A m \in failed : j <= m
                IN  /\ reply' = [status |-> 200, kind |-> "text",
                                 body |-> "Error: ", exc |-> parsed[k].exc,
                                 result |-> << >>]
                    /\ calls' = calls
           ELSE LET features == <<[k \in 1..Len(Fields) |-> parsed[k].value]>>
                    new_data_scaled == ScalerTransform(features)
                    result == RidgePredict(new_data_scaled)
                IN  /\ reply' = [status |-> 200, kind |-> "page",
                                 body |-> "home1.html", exc |-> "",
                                 result |-> result]
                    /\ calls' = calls \o <<"transform", "predict">>
    /\ UNCHANGED <<request, parserVars, webVars>>

\* lines 36-37, a GET
PredictGet ==
    /\ request.method = "GET"
    /\ reply = NoReply
    /\ reply' = [status |-> 200, kind |-> "page", body |-> "home1.html",
                 exc |-> "", result |-> << >>]
    /\ UNCHANGED <<request, calls, parserVars, webVars>>

PredictNext == PredictPost \/ PredictGet

PredictSpec == PredictInit /\ [][PredictNext]_vars

(***************************************************************************)
(* The web application of src/app.py: tables, sessions, helpers            *)
(***************************************************************************)
MaxPortfolios == 1
MaxTime == 2

Emails == {"e1", "e2"}
Passwords == {"p1", "p2"}
Salts == {"s1"}
\* what a registration form is filled with
Credentials ==
    {[email |-> "e1", password |-> "p1"], [email |-> "e2", password |-> "p2"]}
Titles == {"CV"}
Templates == {"modern"}

\* datetime.utcnow(): later than the last value it returned; a handler that
\* reads the clock is cut off once the clock has reached MaxTime
Clock == IF now < MaxTime THEN {now + 1} ELSE {}

\* werkzeug's generate_password_hash / check_password_hash: a salted digest
generate_password_hash(password, salt) ==
    [salt |-> salt, digest |-> <<salt, password>>]
check_password_hash(pwhash, password) ==
    pwhash.digest = <<pwhash.salt, password>>

\* json.dumps / json.loads of the resume dict: the text lists the keys in
\* insertion order, each with its value
DataKeys ==
    <<"name", "email", "phone", "summary", "experience", "education",
      "skills", "projects">>
JsonDumps(d) == [k \in 1..Len(DataKeys) |-> [key |-> DataKeys[k], value |-> d[DataKeys[k]]]]
JsonLoads(t) ==
    [key \in {t[k].key : k \in 1..Len(t)} |->
        (LET k == CHOOSE j \in 1..Len(t) : t[j].key = key IN t[k].value)]

\* request.form.get(key, '')
FormGet(form, key) == IF key \in DOMAIN form THEN form[key] ELSE << >>

\* filename.endswith(suffix)
EndsWith(s, suffix) ==
    /\ Len(s) >= Len(suffix)
    /\ SubSeq(s, Len(s) - Len(suffix) + 1, Len(s)) = suffix

RECURSIVE Concat(_)
Concat(parts) == IF parts = << >> THEN << >> ELSE Head(parts) \o Concat(Tail(parts))

\* The outcome of an extraction: the text, None (ok false), or an exception
\* leaving the handler (raised true).
Extracted(t) == [ok |-> TRUE, raised |-> FALSE, text |-> t]
ExtractedNone == [ok |-> FALSE, raised |-> FALSE, text |-> << >>]
ExtractRaised == [ok |-> FALSE, raised |-> TRUE, text |-> << >>]

\* lines 64-73: PyPDF2 reads the pages of a PDF and raises on anything else
extract_text_from_pdf(file) ==
    IF file.format = "pdf" THEN Extracted(Concat(file.parts)) ELSE ExtractedNone

\* lines 75-84: python-docx reads the paragraphs of a DOCX, raises otherwise
extract_text_from_docx(file) ==
    IF file.format = "docx"
    THEN Extracted(Concat([k \in 1..Len(file.parts) |-> file.parts[k] \o <<"\n">>]))
    ELSE ExtractedNone

\* line 202: file.read().decode('utf-8'), outside any try block
DecodeUtf8(file) ==
    IF file.format = "utf8" THEN Extracted(Concat(file.parts)) ELSE ExtractRaised

Pdf == <<".", "p", "d", "f">>
Docx == <<".", "d", "o", "c", "x">>
Txt == <<".", "t", "x", "t">>

\* lines 196-202
ExtractText(file) ==
    IF EndsWith(file.filename, Pdf) THEN extract_text_from_pdf(file)
    ELSE IF EndsWith(file.filename, Docx) THEN extract_text_from_docx(file)
    ELSE IF EndsWith(file.filename, Txt) THEN DecodeUtf8(file)
    ELSE ExtractedNone

\* line 134 with the lookup dropped
EmailTakenNever(email) == FALSE

\* line 134: User.query.filter_by(email=email).first()
EmailTaken(email) == \E u \in 1..Len(users) : users[u].email = email

\* line 238 with the test dropped
MayEditAnyone(portfolio, uid) == TRUE

\* line 238: portfolio.user_id != current_user.id is the refusal
MayEdit(portfolio, uid) == portfolio.user_id = uid

\* lines 268 and 283 taking the flag for always set
ShowBrandingAlways(portfolio) == TRUE

\* lines 268 and 283: not portfolio.user.is_premium
ShowBranding(portfolio) == ~users[portfolio.user_id].is_premium

\* line 279 with the test dropped
PublicVisibleAlways(portfolio) == TRUE

\* line 279: a portfolio that is not published is answered with 404
PublicVisible(portfolio) == portfolio.is_published

\* line 318 written as a toggle
UpgradedToggle(user) == [user EXCEPT !.is_premium = ~@]

\* line 318: current_user.is_premium = True
Upgraded(user) == [user EXCEPT !.is_premium = TRUE]

\* The request and the defaults of its response
Req(route, method, c, id) ==
    [NoResp EXCEPT !.route = route, !.method = method, !.client = c,
                   !.user = session[c], !.id = id]

\* flask-login's answer to an anonymous caller of a @login_required view
LoginRedirect(r) ==
    [r EXCEPT !.status = 302, !.target = "login",
              !.flash = "Please log in to access this page."]

(***************************************************************************)
(* Inputs of the web application                                           *)
(***************************************************************************)
Name == <<"A", "n", "n">>
SampleText == Name \o <<"\n", "a", "@", "b", "\n">> \o Ones(10)
File(name, format, parts) ==
    [present |-> TRUE, filename |-> <<"c", "v">> \o name, format |-> format,
     parts |-> parts]

Uploads ==
    { NoFile,
      [present |-> TRUE, filename |-> << >>, format |-> "", parts |-> << >>],
      File(Pdf, "pdf", <<Name \o <<"\n">>, <<"a", "@", "b", "\n">> \o Ones(10)>>),
      File(Pdf, "bytes", << >>),
      File(Docx, "docx", <<Name, <<"a", "@", "b">>, Ones(10)>>),
      File(Docx, "bytes", << >>),
      File(Txt, "utf8", <<SampleText>>),
      File(Txt, "utf8", << >>),
      File(Txt, "bytes", << >>),
      File(<<".", "p", "n", "g">>, "bytes", << >>) }

EditForms ==
    { NoForm, [k \in {"name", "summary"} |-> <<"Z">>] }

(***************************************************************************)
(* The request handlers of src/app.py                                      *)
(***************************************************************************)
\* created_at, custom_domain and the portfolio's created_at are written once
\* and read by no handler modelled here; the rows leave them out.
NewUser(email, password, salt) ==
    [email |-> email, password_hash |-> generate_password_hash(password, salt),
     is_premium |-> FALSE]

NewPortfolio(uid, title, template, resume, t) ==
    [user_id |-> uid, title |-> title, template_id |-> template,
     resume_data |-> JsonDumps(resume), is_published |-> TRUE,
     updated_at |-> t]

\* The store when the process starts: empty, or holding rows written before
\* (the database file outlives the process).  No handler clears is_published,
\* so a row with the flag cleared can only be one the store already holds.
SeedUser == NewUser("e1", "p1", "s1")
SeedPortfolio(published) ==
    [NewPortfolio(1, "CV", "modern", parse_resume_text(SampleText), 0)
        EXCEPT !.is_published = published]

Init ==
    /\ \/ users = << >> /\ portfolios = << >>
       \/ users = <<SeedUser>> /\ portfolios = <<SeedPortfolio(FALSE)>>
    /\ session = [c \in Clients |-> 0]
    /\ now = 0
    /\ resp = NoResp
    /\ ParserIdle
    /\ PredictIdle

\* register, lines 128-148
Register(c, method, email, password) ==
    LET r == [Req("register", method, c, 0) EXCEPT !.email = email]
    IN  /\ IF method = "GET"
           THEN /\ resp' = [Req("register", method, c, 0)
                               EXCEPT !.status = 200,
                                      !.template = "auth/register.html"]
                /\ UNCHANGED <<users, session>>
           ELSE IF EmailTaken(email)
           THEN /\ resp' = [r EXCEPT !.status = 302, !.target = "register",
                                     !.flash = "Email already exists"]
                /\ UNCHANGED <<users, session>>
           ELSE /\ \E salt \in Salts :
                      users' = Append(users, NewUser(email, password, salt))
                /\ session' = [session EXCEPT ![c] = Len(users) + 1]
                /\ resp' = [r EXCEPT !.status = 302, !.target = "dashboard"]
        /\ UNCHANGED <<portfolios, now, parserVars, predictVars>>

\* login, lines 150-164
Login(c, method, email, password) ==
    LET r == [Req("login", method, c, 0) EXCEPT !.email = email]
        found == {u \in 1..Len(users) : users[u].email = email}
    IN  /\ IF method = "GET"
           THEN /\ resp' = [Req("login", method, c, 0)
                               EXCEPT !.status = 200,
                                      !.template = "auth/login.html"]
                /\ UNCHANGED session
           ELSE IF /\ found # {}
                   /\ check_password_hash(
                          users[CHOOSE u \in found : \A v \in found : u <= v]
                              .password_hash, password)
           THEN /\ session' =
                      [session EXCEPT
                          ![c] = CHOOSE u \in found : \A v \in found : u <= v]
                /\ resp' = [r EXCEPT !.status = 302, !.target = "dashboard"]
           ELSE /\ resp' = [r EXCEPT !.status = 200,
                                     !.flash = "Invalid credentials",
                                     !.template = "auth/login.html"]
                /\ UNCHANGED session
        /\ UNCHANGED <<users, portfolios, now, parserVars, predictVars>>

\* logout, lines 166-170
Logout(c) ==
    LET r == Req("logout", "GET", c, 0)
    IN  /\ IF session[c] = 0
           THEN /\ resp' = LoginRedirect(r)
                /\ UNCHANGED session
           ELSE /\ session' = [session EXCEPT ![c] = 0]
                /\ resp' = [r EXCEPT !.status = 302, !.target = "home"]
        /\ UNCHANGED <<users, portfolios, now, parserVars, predictVars>>

\* create_portfolio, lines 178-231
CreatePortfolio(c, method, title, template, file) ==
    LET r == [Req("create_portfolio", method, c, 0) EXCEPT !.file = file]
        got == ExtractText(file)
    IN  /\ IF session[c] = 0
           THEN /\ resp' = LoginRedirect(r)
                /\ UNCHANGED <<portfolios, now>>
           ELSE IF method = "GET"
           THEN /\ resp' = [Req("create_portfolio", method, c, 0)
                               EXCEPT !.status = 200,
                                      !.template = "create_portfolio.html"]
                /\ UNCHANGED <<portfolios, now>>
           ELSE IF ~file.present \/ file.filename = << >>
           THEN /\ resp' = [r EXCEPT !.status = 302,
                                     !.target = "create_portfolio",
                                     !.flash = "No file selected"]
                /\ UNCHANGED <<portfolios, now>>
           ELSE IF got.raised
           THEN \* the exception leaves the view: Flask answers 500
                /\ resp' = [r EXCEPT !.status = 500]
                /\ UNCHANGED <<portfolios, now>>
           ELSE IF ~got.ok \/ got.text = << >>
           THEN /\ resp' = [r EXCEPT !.status = 302,
                                     !.target = "create_portfolio",
                                     !.flash = "Could not extract text from file"]
                /\ UNCHANGED <<portfolios, now>>
           ELSE /\ Len(portfolios) < MaxPortfolios
                /\ \E t \in Clock :
                      /\ portfolios' =
                            Append(portfolios,
                                   NewPortfolio(session[c], title, template,
                                                parse_resume_text(got.text), t))
                      /\ now' = t
                /\ resp' = [r EXCEPT !.status = 302,
                                     !.target = "edit_portfolio",
                                     !.id = Len(portfolios) + 1,
                                     !.flash = "Portfolio created successfully!"]
        /\ UNCHANGED <<users, session, parserVars, predictVars>>

\* edit_portfolio, lines 233-260
EditPortfolio(c, method, id, form) ==
    LET r == [Req("edit_portfolio", method, c, id) EXCEPT !.form = form]
    IN  /\ IF session[c] = 0
           THEN /\ resp' = LoginRedirect(r)
                /\ UNCHANGED <<portfolios, now>>
           ELSE IF id \notin 1..Len(portfolios)
           THEN /\ resp' = [r EXCEPT !.status = 404]
                /\ UNCHANGED <<portfolios, now>>
           ELSE IF ~MayEdit(portfolios[id], session[c])
           THEN /\ resp' = [r EXCEPT !.status = 302, !.target = "dashboard",
                                     !.flash = "Unauthorized"]
                /\ UNCHANGED <<portfolios, now>>
           ELSE IF method = "POST"
           THEN LET old == JsonLoads(portfolios[id].resume_data)
                    new == [old EXCEPT !.name = FormGet(form, "name"),
                                       !.email = FormGet(form, "email"),
                                       !.phone = FormGet(form, "phone"),
                                       !.summary = FormGet(form, "summary")]
                IN  /\ \E t \in Clock :
                          /\ portfolios' =
                                [portfolios EXCEPT
                                    ![id].resume_data = JsonDumps(new),
                                    ![id].updated_at = t]
                          /\ now' = t
                    /\ resp' = [r EXCEPT !.status = 302,
                                         !.target = "preview_portfolio",
                                         !.flash = "Portfolio updated successfully!"]
           ELSE /\ resp' = [r EXCEPT !.status = 200, !.rendered = TRUE,
                                     !.resume_data =
                                         JsonLoads(portfolios[id].resume_data),
                                     !.template = "edit_portfolio.html"]
                /\ UNCHANGED <<portfolios, now>>
        /\ UNCHANGED <<users, session, parserVars, predictVars>>

\* preview_portfolio, lines 262-273
PreviewPortfolio(c, id) ==
    LET r == Req("preview_portfolio", "GET", c, id)
    IN  /\ IF id \notin 1..Len(portfolios)
           THEN resp' = [r EXCEPT !.status = 404]
           ELSE resp' = [r EXCEPT !.status = 200, !.rendered = TRUE,
                                  !.resume_data =
                                      JsonLoads(portfolios[id].resume_data),
                                  !.show_branding = ShowBranding(portfolios[id]),
                                  !.template = portfolios[id].template_id]
        /\ UNCHANGED <<users, portfolios, session, now, parserVars, predictVars>>

\* public_portfolio, lines 275-288
PublicPortfolio(c, id) ==
    LET r == Req("public_portfolio", "GET", c, id)
    IN  /\ IF id \notin 1..Len(portfolios)
           THEN resp' = [r EXCEPT !.status = 404]
           ELSE IF ~PublicVisible(portfolios[id])
           THEN resp' = [r EXCEPT !.status = 404,
                                  !.flash = "Portfolio not found"]
           ELSE resp' = [r EXCEPT !.status = 200, !.rendered = TRUE,
                                  !.resume_data =
                                      JsonLoads(portfolios[id].resume_data),
                                  !.show_branding = ShowBranding(portfolios[id]),
                                  !.template = portfolios[id].template_id]
        /\ UNCHANGED <<users, portfolios, session, now, parserVars, predictVars>>

\* create_payment_intent, lines 295-312: the body may not be JSON and the
\* call to the payment processor may fail; either is answered with 403
CreatePaymentIntent(c, outcome) ==
    LET r == Req("create_payment_intent", "POST", c, 0)
    IN  /\ IF session[c] = 0
           THEN resp' = LoginRedirect(r)
           ELSE IF outcome \in {"body is not JSON", "stripe raises"}
           THEN resp' = [r EXCEPT !.status = 403, !.flash = outcome]
           ELSE resp' = [r EXCEPT !.status = 200, !.flash = "client_secret"]
        /\ UNCHANGED <<users, portfolios, session, now, parserVars, predictVars>>

\* payment_success, lines 314-322
PaymentSuccess(c) ==
    LET r == Req("payment_success", "GET", c, 0)
    IN  /\ IF session[c] = 0
           THEN /\ resp' = LoginRedirect(r)
                /\ UNCHANGED users
           ELSE /\ users' = [users EXCEPT ![session[c]] = Upgraded(@)]
                /\ resp' = [r EXCEPT !.status = 302, !.target = "dashboard",
                                     !.flash = "Payment successful! You are now a premium user."]
        /\ UNCHANGED <<portfolios, session, now, parserVars, predictVars>>

Ids == 1..(MaxPortfolios + 1)

\* a GET carries no form
Next ==
    \/ \E c \in Clients : Register(c, "GET", "", "")
    \/ \E c \in Clients, cr \in Credentials :
          Register(c, "POST", cr.email, cr.password)
    \/ \E c \in Clients : Login(c, "GET", "", "")
    \/ \E c \in Clients, e \in Emails, p \in Passwords : Login(c, "POST", e, p)
    \/ \E c \in Clients : Logout(c)
    \/ \E c \in Clients, t \in Titles, tpl \in Templates :
          CreatePortfolio(c, "GET", t, tpl, NoFile)
    \/ \E c \in Clients, t \in Titles, tpl \in Templates, f \in Uploads :
          CreatePortfolio(c, "POST", t, tpl, f)
    \/ \E c \in Clients, id \in Ids : EditPortfolio(c, "GET", id, NoForm)
    \/ \E c \in Clients, id \in Ids, f \in EditForms :
          EditPortfolio(c, "POST", id, f)
    \/ \E c \in Clients, id \in Ids : PreviewPortfolio(c, id)
    \/ \E c \in Clients, id \in Ids : PublicPortfolio(c, id)
    \/ \E c \in Clients, o \in {"body is not JSON", "stripe raises", "ok"} :
          CreatePaymentIntent(c, o)
    \/ \E c \in Clients : PaymentSuccess(c)

Spec == Init /\ [][Next]_vars

(***************************************************************************)
(* Claims about parse_resume_text                                          *)
(***************************************************************************)
InPhoneRange(n) == n >= PhoneMinLen /\ n <= PhoneMaxLen

\* the lines of the text as written, and with surrounding whitespace removed
RawEmailIdx == {k \in 1..Len(lines) : Contains(lines[k], "@")}
RawPhoneIdx ==
    {k \in 1..Len(lines) : AnyDigit(lines[k]) /\ InPhoneRange(Len(lines[k]))}
RawPlainIdx ==
    {k \in 1..Len(lines) : ~Contains(lines[k], "@") /\ ~AnyDigit(lines[k])}

StrippedEmailIdx == {k \in 1..Len(lines) : Contains(Strip(lines[k]), "@")}
StrippedPhoneIdx ==
    {k \in 1..Len(lines) :
        AnyDigit(Strip(lines[k])) /\ InPhoneRange(Len(Strip(lines[k])))}
StrippedPlainIdx ==
    {k \in 1..Len(lines) :
        /\ Strip(lines[k]) # << >>
        /\ ~Contains(Strip(lines[k]), "@")
        /\ ~AnyDigit(Strip(lines[k]))}

Least(S) == CHOOSE k \in S : \A m \in S : k <= m

ListsEmpty ==
    /\ data.summary = << >>
    /\ data.experience = << >>
    /\ data.education = << >>
    /\ data.skills = << >>
    /\ data.projects = << >>

C7RawPre ==
    /\ Cardinality(RawEmailIdx) = 1
    /\ Cardinality(RawPhoneIdx) = 1
    /\ \E k \in RawPlainIdx :
          \A m \in RawEmailIdx \cup RawPhoneIdx : k < m

C7StrippedPre ==
    /\ Cardinality(StrippedEmailIdx) = 1
    /\ Cardinality(StrippedPhoneIdx) = 1
    /\ \E k \in StrippedPlainIdx :
          \A m \in StrippedEmailIdx \cup StrippedPhoneIdx : k < m

\* C7 as stated: with exactly one line containing '@', exactly one line of
\* 10-15 characters containing a digit and a plain line before both, the
\* parser returns that email line, that phone line and a plain line preceding
\* both (each compared up to surrounding whitespace), and nothing else.
C7_AsStated ==
    (pc = "done" /\ C7RawPre) =>
        /\ \E k \in RawEmailIdx : data.email = Strip(lines[k])
        /\ \E k \in RawPhoneIdx : data.phone = Strip(lines[k])
        /\ \E k \in RawPlainIdx :
              /\ \A m \in RawEmailIdx \cup RawPhoneIdx : k < m
              /\ data.name = Strip(lines[k])
        /\ ListsEmpty

\* C7 amended: the three conditions are taken on the lines after strip().
\* Then, after the loop has consumed i lines, email, phone and name hold the
\* stripped email line, phone line and first plain line if that line is among
\* the first i and are empty otherwise (so each is assigned once, at its line,
\* and kept); summary and the four lists stay empty.
C7_ParsePrecedence ==
    (pc \in {"loop", "done"} /\ C7StrippedPre) =>
        LET e == Least(StrippedEmailIdx)
            p == Least(StrippedPhoneIdx)
            n == Least(StrippedPlainIdx)
        IN  /\ data.email = (IF e <= i THEN Strip(lines[e]) ELSE << >>)
            /\ data.phone = (IF p <= i THEN Strip(lines[p]) ELSE << >>)
            /\ data.name = (IF n <= i THEN Strip(lines[n]) ELSE << >>)
            /\ ListsEmpty

C7_Witness ==
    /\ pc = "done"
    /\ C7StrippedPre
    /\ data.name # << >>
    /\ data.email # << >>
    /\ data.phone # << >>
    /\ data.email # data.phone
    /\ \E k \in StrippedPhoneIdx : Strip(lines[k]) # lines[k]

\* C8 as stated: when no line of the text both contains a digit and is 10 to
\* 15 characters long, the returned phone is the empty string.
C8_AsStated ==
    (pc = "done" /\ RawPhoneIdx = {}) => data.phone = << >>

\* C8 amended: when no line, after strip(), both contains a digit and is 10
\* to 15 characters long, phone is empty throughout the loop and on return.
C8_PhoneStaysEmpty ==
    (pc \in {"loop", "done"} /\ StrippedPhoneIdx = {}) => data.phone = << >>

C8_Witness ==
    /\ pc = "done"
    /\ StrippedPhoneIdx = {}
    /\ data.phone = << >>
    /\ \E k \in 1..Len(lines) : AnyDigit(lines[k]) /\ Strip(lines[k]) # lines[k]
    /\ \E k \in 1..Len(lines) : AnyDigit(lines[k]) /\ Contains(lines[k], "@")

(***************************************************************************)
(* Claims about the web application                                        *)
(***************************************************************************)
Owner(id) == portfolios[id].user_id

\* C1: an edit request (GET or POST, any form) on a portfolio made in the
\* session of an account that does not own it is refused with the
\* "Unauthorized" message and leaves the portfolio table as it was.
C1_NonOwnerEditRefused ==
    [][(/\ resp'.route = "edit_portfolio"
        /\ resp'.user # 0
        /\ resp'.id \in 1..Len(portfolios)
        /\ Owner(resp'.id) # resp'.user)
       => (/\ resp'.flash = "Unauthorized"
           /\ resp'.status = 302
           /\ ~resp'.rendered
           /\ portfolios' = portfolios)]_vars

C1_Witness ==
    /\ resp.route = "edit_portfolio"
    /\ resp.method = "POST"
    /\ resp.form # NoForm
    /\ resp.user # 0
    /\ resp.id \in 1..Len(portfolios)
    /\ Owner(resp.id) # resp.user
    /\ resp.flash = "Unauthorized"

\* C2: a registration POST with an email no account holds adds exactly one
\* account, with that email, and logs the requester in as it; with an email
\* an account holds it is refused, and the accounts and the sessions stay as
\* they were.
C2_RegisterUniqueEmail ==
    [][(resp'.route = "register" /\ resp'.method = "POST")
       => IF \E u \in 1..Len(users) : users[u].email = resp'.email
          THEN /\ resp'.flash = "Email already exists"
               /\ users' = users
               /\ session' = session
          ELSE /\ users' # users
               /\ Len(users') = Len(users) + 1
               /\ SubSeq(users', 1, Len(users)) = users
               /\ users'[Len(users')].email = resp'.email
               /\ ~users'[Len(users')].is_premium
               /\ session' = [session EXCEPT ![resp'.client] = Len(users')]]_vars

C2_Witness ==
    /\ resp.route = "register"
    /\ resp.method = "POST"
    /\ resp.flash = "Email already exists"
    /\ Cardinality({u \in 1..Len(users) : users[u].email = resp.email}) = 1
    /\ Len(users) = 2

\* C3: an account is created with the premium flag false; the flag changes
\* only in a payment-success step, only for the account that made the
\* request and only from false to true; a flag that is true stays true.
C3_PremiumMonotone ==
    [][\A u \in 1..Len(users') :
          IF u > Len(users)
          THEN ~users'[u].is_premium
          ELSE /\ users[u].is_premium => users'[u].is_premium
               /\ users'[u].is_premium # users[u].is_premium
                     => /\ resp'.route = "payment_success"
                        /\ resp'.user = u]_vars

C3_Witness ==
    /\ resp.route = "payment_success"
    /\ resp.user # 0
    /\ users[resp.user].is_premium
    /\ \E u \in 1..Len(users) : ~users[u].is_premium

\* C4: a render through the preview route or the public route carries the
\* branding flag that is the negation of the owner's premium flag, whoever
\* asked for it.
C4_BrandingFollowsOwner ==
    (resp.route \in {"preview_portfolio", "public_portfolio"} /\ resp.rendered)
        => resp.show_branding = ~users[Owner(resp.id)].is_premium

C4_Witness ==
    /\ resp.route = "public_portfolio"
    /\ resp.rendered
    /\ resp.user # 0
    /\ resp.user # Owner(resp.id)
    /\ users[resp.user].is_premium
    /\ ~users[Owner(resp.id)].is_premium
    /\ resp.show_branding

\* C5: the public view of an existing portfolio renders it when its
\* published flag is set and answers 404, rendering nothing, when it is not,
\* for every caller.
C5_PublishedGate ==
    (resp.route = "public_portfolio" /\ resp.id \in 1..Len(portfolios))
        => IF portfolios[resp.id].is_published
           THEN /\ resp.status = 200
                /\ resp.rendered
                /\ resp.resume_data = JsonLoads(portfolios[resp.id].resume_data)
           ELSE /\ resp.status = 404
                /\ ~resp.rendered
                /\ resp.resume_data = EmptyData

C5_Witness ==
    /\ resp.route = "public_portfolio"
    /\ resp.id \in 1..Len(portfolios)
    /\ ~portfolios[resp.id].is_published
    /\ resp.user = 0
    /\ resp.status = 404

\* C6 as stated: the preview route renders a portfolio only for a caller
\* logged in as its owner.
C6_PreviewOwnerOnly ==
    (resp.route = "preview_portfolio" /\ resp.rendered)
        => resp.user = Owner(resp.id)

\* what the claim counts as a failed extraction: an extension other than
\* .pdf, .docx and .txt, content the extension's reader cannot parse, or
\* no text
ClaimedExtractionFailure(file) ==
    \/ ~(\E ext \in {Pdf, Docx, Txt} : EndsWith(file.filename, ext))
    \/ EndsWith(file.filename, Pdf) /\ file.format # "pdf"
    \/ EndsWith(file.filename, Docx) /\ file.format # "docx"
    \/ EndsWith(file.filename, Txt) /\ file.format # "utf8"
    \/ file.parts = << >>

\* C10 as stated: the portfolio table grows only by a create-portfolio POST;
\* such a POST with a file whose extraction fails is answered with the
\* generic extraction-failure message, without a server error, and leaves
\* the table as it was; one whose extraction succeeds adds exactly one
\* portfolio, owned by the requester and published.
C10_ExtractionFailureSwallowed ==
    [][/\ portfolios' # portfolios /\ Len(portfolios') # Len(portfolios)
            => resp'.route = "create_portfolio" /\ resp'.method = "POST"
       /\ (/\ resp'.route = "create_portfolio"
           /\ resp'.method = "POST"
           /\ resp'.user # 0
           /\ resp'.file.present
           /\ resp'.file.filename # << >>)
          => IF ClaimedExtractionFailure(resp'.file)
             THEN /\ resp'.status # 500
                  /\ resp'.flash = "Could not extract text from file"
                  /\ portfolios' = portfolios
             ELSE /\ Len(portfolios') = Len(portfolios) + 1
                  /\ SubSeq(portfolios', 1, Len(portfolios)) = portfolios
                  /\ portfolios'[Len(portfolios')].user_id = resp'.user
                  /\ portfolios'[Len(portfolios')].is_published]_vars

(***************************************************************************)
(* Claims about predict_datapoint                                          *)
(***************************************************************************)
\* a field that is present and holds a number
Numeric(form, name) == name \in DOMAIN form /\ IsFloatLiteral(form[name])

\* C9: a POST with a missing or non-numeric field is answered normally with
\* an inline error string and neither the scaler nor the model is applied; a
\* POST whose seven fields are all numeric is answered with the rendered page
\* carrying the model's prediction for the scaled features.
C9_PredictErrorsInline ==
    (reply # NoReply /\ request.method = "POST") =>
        IF \E name \in FieldNames : ~Numeric(request.form, name)
        THEN /\ reply.status = 200
             /\ reply.kind = "text"
             /\ reply.body = "Error: "
             /\ reply.result = << >>
             /\ calls = << >>
        ELSE /\ reply.status = 200
             /\ reply.kind = "page"
             /\ reply.body = "home1.html"
             /\ reply.result =
                    RidgePredict(ScalerTransform(
                        <<[k \in 1..Len(Fields) |->
                              FloatValue(request.form[Fields[k]])]>>))
             /\ calls = <<"transform", "predict">>

C9_Witness ==
    /\ reply # NoReply
    /\ request.method = "POST"
    /\ "parking" \notin DOMAIN request.form
    /\ \A name \in FieldNames \ {"parking"} : Numeric(request.form, name)
    /\ reply.kind = "text"
    /\ reply.exc = "TypeError"

====
